---- MODULE Spec2Model ----
(***************************************************************************)
(* Shor 9-qubit code demonstration (Task_1.py): circuit construction,      *)
(* gate-level execution of the constructed circuits on a state vector,     *)
(* the depolarizing noise model, and the statistics of run_comparison.     *)
(*                                                                         *)
(* A basis state of n qubits is the set of qubit indices that are 1.       *)
(* A state vector is a function from the basis states of non-zero          *)
(* amplitude to amplitudes.  An amplitude is <<re, im>> in units of        *)
(* 1/SCALE, and the whole vector carries hk factors of 1/sqrt(2), one per  *)
(* Hadamard gate applied, so Pauli, Hadamard and controlled gates are      *)
(* exact; only rotation and T gates round to 1/SCALE.                      *)
(***************************************************************************)
EXTENDS Integers, Sequences, FiniteSets, TLC

VARIABLES
    job,        \* circuit-semantics runs: the circuit under study and its input
    mainPc,     \* position of the script
    backend,    \* noise model of the AerSimulator in use, empty without noise
    qc,         \* shor_qec_circuit: the circuit under construction
    bpc,        \* shor_qec_circuit: number of its statements executed
    rc,         \* run_comparison: its local variables
    demo,       \* demonstrate_error_correction: its local variables
    submitted,  \* every backend.run submission so far
    out,        \* everything printed so far
    globals,    \* module-level variables of the script
    err,        \* the exception that ended the script, NoErr when there is none
    ops,        \* backend: operation list of the circuit being executed
    ip,         \* backend: index of the next operation, 0 when idle
    psi,        \* backend: state vector
    hk,         \* backend: number of 1/sqrt(2) factors carried by psi
    hit,        \* backend: some executed gate had a noise channel attached
    prob,       \* backend: <<P(0), P(1)>> numerators at the measurement
    counts      \* backend: measurement counts of the finished run

simVars == <<ops, ip, psi, hk, hit, prob, counts>>
progVars == <<mainPc, backend, qc, bpc, rc, demo, submitted, out, globals, err>>
vars == <<job, mainPc, backend, qc, bpc, rc, demo, submitted, out, globals, err,
          ops, ip, psi, hk, hit, prob, counts>>


-----------------------------------------------------------------------------
(* Program constants *)

NQ == 9
SHOTS == 1000
SCALE == 1000

-----------------------------------------------------------------------------
(* Amplitude arithmetic *)

Zero == <<0, 0>>
One == <<SCALE, 0>>

Abs(n) == IF n < 0 THEN -n ELSE n

\* n / SCALE rounded to the nearest integer
RDiv(n) == (n + SCALE \div 2) \div SCALE

CAdd(a, b) == <<a[1] + b[1], a[2] + b[2]>>
CNeg(a) == <<-a[1], -a[2]>>
CSub(a, b) == CAdd(a, CNeg(b))
CMulI(a) == <<-a[2], a[1]>>
\* a times the complex number c / SCALE
CMul(a, c) == <<RDiv(a[1] * c[1] - a[2] * c[2]), RDiv(a[1] * c[2] + a[2] * c[1])>>
NormSq(a) == a[1] * a[1] + a[2] * a[2]

\* cos and sin of theta/2 in units of 1/SCALE; theta in thousandths of a radian
CosHalf(theta) ==
    CASE Abs(theta) = 0   -> 1000
      [] Abs(theta) = 500 -> 969
      [] Abs(theta) = 300 -> 989
      [] Abs(theta) = 700 -> 939

SinHalf(theta) ==
    LET s == CASE Abs(theta) = 0   -> 0
               [] Abs(theta) = 500 -> 247
               [] Abs(theta) = 300 -> 149
               [] Abs(theta) = 700 -> 343
    IN IF theta < 0 THEN -s ELSE s

-----------------------------------------------------------------------------
(* State vectors *)

At(v, s) == IF s \in DOMAIN v THEN v[s] ELSE Zero

Flip(s, q) == IF q \in s THEN s \ {q} ELSE s \cup {q}

\* the vector whose amplitude at s is f[s], over the candidates cands
Sparse(cands, f) == [s \in {t \in cands : f[t] # Zero} |-> f[s]]

Reach(v, q) == DOMAIN v \cup {Flip(s, q) : s \in DOMAIN v}

ApplyX(v, q) == [s \in {Flip(t, q) : t \in DOMAIN v} |-> v[Flip(s, q)]]

ApplyZ(v, q) == [s \in DOMAIN v |-> IF q \in s THEN CNeg(v[s]) ELSE v[s]]

\* sqrt(2) * H: the factor 1/sqrt(2) is counted in hk
ApplyH(v, q) ==
    LET f == [s \in Reach(v, q) |->
                 IF q \in s THEN CSub(At(v, s \ {q}), At(v, s))
                            ELSE CAdd(At(v, s), At(v, s \cup {q}))]
    IN Sparse(Reach(v, q), f)

ApplyS(v, q) == [s \in DOMAIN v |-> IF q \in s THEN CMulI(v[s]) ELSE v[s]]

ApplySdg(v, q) == [s \in DOMAIN v |-> IF q \in s THEN CNeg(CMulI(v[s])) ELSE v[s]]

ApplyT(v, q) ==
    LET f == [s \in DOMAIN v |-> IF q \in s THEN CMul(v[s], <<707, 707>>) ELSE v[s]]
    IN Sparse(DOMAIN v, f)

ApplyTdg(v, q) ==
    LET f == [s \in DOMAIN v |-> IF q \in s THEN CMul(v[s], <<707, -707>>) ELSE v[s]]
    IN Sparse(DOMAIN v, f)

\* RX(theta) = [[cos, -i sin], [-i sin, cos]] of theta/2
ApplyRX(v, theta, q) ==
    LET c == <<CosHalf(theta), 0>>
        s == <<0, -SinHalf(theta)>>
        f == [b \in Reach(v, q) |-> CAdd(CMul(At(v, b), c), CMul(At(v, Flip(b, q)), s))]
    IN Sparse(Reach(v, q), f)

\* RY(theta) = [[cos, -sin], [sin, cos]] of theta/2
ApplyRY(v, theta, q) ==
    LET c == <<CosHalf(theta), 0>>
        s == <<SinHalf(theta), 0>>
        f == [b \in Reach(v, q) |->
                 IF q \in b THEN CAdd(CMul(At(v, b \ {q}), s), CMul(At(v, b), c))
                            ELSE CSub(CMul(At(v, b), c), CMul(At(v, b \cup {q}), s))]
    IN Sparse(Reach(v, q), f)

\* RZ(theta) = diag(exp(-i theta/2), exp(i theta/2))
ApplyRZ(v, theta, q) ==
    LET f == [b \in DOMAIN v |->
                 IF q \in b THEN CMul(v[b], <<CosHalf(theta), SinHalf(theta)>>)
                            ELSE CMul(v[b], <<CosHalf(theta), -SinHalf(theta)>>)]
    IN Sparse(DOMAIN v, f)

CXMap(s, c, t) == IF c \in s THEN Flip(s, t) ELSE s

ApplyCX(v, c, t) == [s \in {CXMap(b, c, t) : b \in DOMAIN v} |-> v[CXMap(s, c, t)]]

ApplyCZ(v, a, b) == [s \in DOMAIN v |-> IF a \in s /\ b \in s THEN CNeg(v[s]) ELSE v[s]]

SwapMap(s, a, b) == IF (a \in s) = (b \in s) THEN s ELSE Flip(Flip(s, a), b)

ApplySwap(v, a, b) == [s \in {SwapMap(t, a, b) : t \in DOMAIN v} |-> v[SwapMap(s, a, b)]]

-----------------------------------------------------------------------------
(* Circuits *)

OneQubitKinds == {"h", "x", "y", "z", "s", "sdg", "t", "tdg", "rx", "ry", "rz"}
TwoQubitKinds == {"cx", "cz", "swap"}

G1(k, q) == [kind |-> k, qs |-> <<q>>, par |-> 0, cb |-> <<>>]
G2(k, a, b) == [kind |-> k, qs |-> <<a, b>>, par |-> 0, cb |-> <<>>]
Rot(k, theta, q) == [kind |-> k, qs |-> <<q>>, par |-> theta, cb |-> <<>>]
Measure(q, c) == [kind |-> "measure", qs |-> <<q>>, par |-> 0, cb |-> <<c>>]
\* barrier() without arguments spans every qubit of the circuit
Barrier(n) == [kind |-> "barrier", qs |-> [i \in 1..n |-> i - 1], par |-> 0, cb |-> <<>>]

QuantumCircuit(n, m) == [nq |-> n, nc |-> m, ops |-> <<>>]

\* a name bound to no circuit
NoCircuit == [nq |-> 0, nc |-> 0, ops |-> <<>>]

Add(circ, op) == [circ EXCEPT !.ops = Append(circ.ops, op)]

\* compose(other, front=True): the fragment goes before what is already there
compose_front(circ, other) == [circ EXCEPT !.ops = other.ops \o circ.ops]

compose(circ, other) == [circ EXCEPT !.ops = circ.ops \o other.ops]

InvKind(k) ==
    CASE k = "s" -> "sdg"
      [] k = "sdg" -> "s"
      [] k = "t" -> "tdg"
      [] k = "tdg" -> "t"
      [] OTHER -> k

InvOp(op) == [op EXCEPT !.kind = InvKind(op.kind), !.par = -op.par]

\* each gate inverted but the order kept
inverse_forward(circ) ==
    [circ EXCEPT !.ops = [i \in 1..Len(circ.ops) |-> InvOp(circ.ops[i])]]

inverse(circ) ==
    LET n == Len(circ.ops)
    IN [circ EXCEPT !.ops = [i \in 1..n |-> InvOp(circ.ops[n + 1 - i])]]

\* the Hadamards applied before the qubits 3 and 6 are entangled with qubit 0
shor_encode_hfirst ==
    [nq |-> NQ, nc |-> 0,
     ops |-> << G1("h", 0), G1("h", 3), G1("h", 6),
                G2("cx", 0, 3), G2("cx", 0, 6),
                G2("cx", 0, 1), G2("cx", 0, 2),
                G2("cx", 3, 4), G2("cx", 3, 5),
                G2("cx", 6, 7), G2("cx", 6, 8) >>]

shor_encode ==
    [nq |-> NQ, nc |-> 0,
     ops |-> << G2("cx", 0, 3), G2("cx", 0, 6),
                G1("h", 0), G1("h", 3), G1("h", 6),
                G2("cx", 0, 1), G2("cx", 0, 2),
                G2("cx", 3, 4), G2("cx", 3, 5),
                G2("cx", 6, 7), G2("cx", 6, 8) >>]

apply_quantum_operations ==
    [nq |-> NQ, nc |-> 0,
     ops |-> << G1("h", 0), Rot("rx", 500, 1), Rot("ry", 300, 2), Rot("rz", 700, 3),
                G1("s", 4), G1("sdg", 5), G1("t", 6), G1("tdg", 7), G1("x", 8),
                G2("cx", 0, 4), G2("cz", 1, 5), G2("swap", 2, 6) >>]

\* a correction that reads the syndrome
apply_error_correction_lookup(syndrome) ==
    [nq |-> NQ, nc |-> 0,
     ops |-> IF syndrome = "000000"
             THEN << Barrier(NQ), G1("x", 0), G1("z", 0), G1("x", 0), G1("z", 0) >>
             ELSE << Barrier(NQ), G1("x", 0) >>]

\* the correction without its barrier
apply_error_correction_no_barrier(syndrome) ==
    [nq |-> NQ, nc |-> 0,
     ops |-> << G1("x", 0), G1("z", 0), G1("x", 0), G1("z", 0) >>]

apply_error_correction(syndrome) ==
    [nq |-> NQ, nc |-> 0,
     ops |-> << Barrier(NQ), G1("x", 0), G1("z", 0), G1("x", 0), G1("z", 0) >>]

\* one statement of shor_qec_circuit, lines 76..93
QecStmt(k, circ) ==
    CASE k = 1 -> Add(circ, G1("h", 0))
      [] k = 2 -> compose(circ, apply_quantum_operations)
      [] k = 3 -> compose(circ, shor_encode)
      [] k = 4 -> Add(circ, Barrier(circ.nq))
      [] k = 5 -> compose(circ, apply_error_correction("000000"))
      [] k = 6 -> compose(circ, inverse(shor_encode))
      [] k = 7 -> Add(circ, Measure(0, 0))

QecStmts == 7

RECURSIVE QecAfter(_)
QecAfter(k) == IF k = 0 THEN QuantumCircuit(NQ, 1) ELSE QecStmt(k, QecAfter(k - 1))

shor_qec_circuit == QecAfter(QecStmts)

\* the fault-injection circuit without the decoding step
fault_injection_no_decode(b, q) ==
    LET c0 == QuantumCircuit(NQ, 1)
        c1 == IF b = 1 THEN Add(c0, G1("x", 0)) ELSE c0
        c2 == compose(c1, shor_encode)
        c3 == Add(c2, G1("x", q))
    IN Add(c3, Measure(0, 0))

\* the circuit of demonstrate_error_correction, prepared value b and fault qubit q
fault_injection_circuit(b, q) ==
    LET c0 == QuantumCircuit(NQ, 1)
        c1 == IF b = 1 THEN Add(c0, G1("x", 0)) ELSE c0
        c2 == compose(c1, shor_encode)
        c3 == Add(c2, G1("x", q))
        c4 == compose(c3, inverse(shor_encode))
    IN Add(c4, Measure(0, 0))

\* the unprotected reference circuit of run_comparison
no_ec_circuit ==
    [nq |-> 1, nc |-> 1,
     ops |-> << G1("h", 0), Rot("rx", 500, 0), Rot("ry", 300, 0), Rot("rz", 700, 0),
                Measure(0, 0) >>]

\* simple_qec of visualize_circuits
simple_qec_circuit ==
    LET c0 == Add(QuantumCircuit(NQ, 1), G1("h", 0))
        c1 == compose(c0, shor_encode)
        c2 == Add(c1, Barrier(c1.nq))
        c3 == compose(c2, inverse(shor_encode))
    IN Add(c3, Measure(0, 0))

\* encode followed by decode, measured: simple_qec without its preparation
round_trip_circuit ==
    LET c1 == compose(QuantumCircuit(NQ, 1), shor_encode)
        c2 == Add(c1, Barrier(c1.nq))
        c3 == compose(c2, inverse(shor_encode))
    IN Add(c3, Measure(0, 0))

-----------------------------------------------------------------------------
(* Noise model *)

P1 == 10
P2 == 30

depolarizing_error(p, n) == [p |-> p, n |-> n]

add_all_qubit_quantum_error(nm, error, kinds) ==
    nm \cup {[kind |-> k, err |-> error] : k \in kinds}

\* rz left out of the single-qubit registration
build_noise_model_no_rz ==
    LET error1 == depolarizing_error(P1, 1)
        error2 == depolarizing_error(P2, 2)
        nm1 == add_all_qubit_quantum_error({}, error1, OneQubitKinds \ {"rz"})
    IN add_all_qubit_quantum_error(nm1, error2, TwoQubitKinds)

build_noise_model ==
    LET error1 == depolarizing_error(P1, 1)
        error2 == depolarizing_error(P2, 2)
        nm1 == add_all_qubit_quantum_error({}, error1, OneQubitKinds)
    IN add_all_qubit_quantum_error(nm1, error2, TwoQubitKinds)

\* the channels a noise model attaches to a gate kind
Channels(nm, k) == {r.err : r \in {x \in nm : x.kind = k}}

-----------------------------------------------------------------------------
(* Backend: gate-by-gate execution *)

ApplyOp(v, op) ==
    CASE op.kind = "x" -> ApplyX(v, op.qs[1])
      [] op.kind = "z" -> ApplyZ(v, op.qs[1])
      [] op.kind = "h" -> ApplyH(v, op.qs[1])
      [] op.kind = "s" -> ApplyS(v, op.qs[1])
      [] op.kind = "sdg" -> ApplySdg(v, op.qs[1])
      [] op.kind = "t" -> ApplyT(v, op.qs[1])
      [] op.kind = "tdg" -> ApplyTdg(v, op.qs[1])
      [] op.kind = "rx" -> ApplyRX(v, op.par, op.qs[1])
      [] op.kind = "ry" -> ApplyRY(v, op.par, op.qs[1])
      [] op.kind = "rz" -> ApplyRZ(v, op.par, op.qs[1])
      [] op.kind = "cx" -> ApplyCX(v, op.qs[1], op.qs[2])
      [] op.kind = "cz" -> ApplyCZ(v, op.qs[1], op.qs[2])
      [] op.kind = "swap" -> ApplySwap(v, op.qs[1], op.qs[2])

RECURSIVE SumSq(_, _)
SumSq(v, S) ==
    IF S = {} THEN 0
    ELSE LET s == CHOOSE x \in S : TRUE IN NormSq(v[s]) + SumSq(v, S \ {s})

\* numerators of the probabilities of reading 0 and 1 on qubit q
Probs(v, q) ==
    << SumSq(v, {s \in DOMAIN v : q \notin s}), SumSq(v, {s \in DOMAIN v : q \in s}) >>

CountGrid == 10

\* no counts read yet (a counts dict has at least one key)
NoCounts == [k \in {} |-> 0]
NoProb == <<0, 0>>

GridC0 == {(k * SHOTS) \div CountGrid : k \in 0..CountGrid}

\* get_counts(): outcomes never observed have no key
CountsDict(c0) ==
    [k \in (IF c0 > 0 THEN {"0"} ELSE {}) \cup (IF c0 < SHOTS THEN {"1"} ELSE {})
        |-> IF k = "0" THEN c0 ELSE SHOTS - c0]

\* counts of outcome 0 that SHOTS shots can give: once a depolarizing channel has
\* acted either outcome is possible in every shot; without noise an outcome of
\* probability 0 is never observed
PossibleC0(pr, noisy) ==
    IF noisy THEN GridC0
    ELSE IF pr[2] = 0 THEN {SHOTS}
    ELSE IF pr[1] = 0 THEN {0}
    ELSE GridC0

Basis(s) == [b \in {s} |-> One]

\* backend.run(circuit, shots): start from the given basis state
Start(circ, s) ==
    /\ ops' = circ.ops
    /\ ip' = 1
    /\ psi' = Basis(s)
    /\ hk' = 0
    /\ hit' = FALSE
    /\ prob' = NoProb
    /\ counts' = NoCounts

Running == ip \in 1..Len(ops)
Finished == ip = Len(ops) + 1

ExecGate(nm) ==
    /\ Running
    /\ ops[ip].kind \notin {"measure", "barrier"}
    /\ psi' = ApplyOp(psi, ops[ip])
    /\ hk' = IF ops[ip].kind = "h" THEN hk + 1 ELSE hk
    /\ hit' = (hit \/ \E e \in Channels(nm, ops[ip].kind) : e.p > 0)
    /\ ip' = ip + 1
    /\ UNCHANGED <<ops, prob, counts>>

ExecBarrier ==
    /\ Running
    /\ ops[ip].kind = "barrier"
    /\ ip' = ip + 1
    /\ UNCHANGED <<ops, psi, hk, hit, prob, counts>>

ExecMeasure ==
    /\ Running
    /\ ops[ip].kind = "measure"
    /\ prob' = Probs(psi, ops[ip].qs[1])
    /\ \E c0 \in PossibleC0(Probs(psi, ops[ip].qs[1]), hit) : counts' = CountsDict(c0)
    /\ ip' = ip + 1
    /\ UNCHANGED <<ops, psi, hk, hit>>

-----------------------------------------------------------------------------
(* Circuit semantics: noise-free execution of the built circuits *)

NoGlobals == [counts_no_ec |-> NoCounts, counts_with_ec |-> NoCounts,
              error_counts |-> NoCounts, qc |-> NoCircuit]

\* local variables of run_comparison and of demonstrate_error_correction, unbound
NoFrame ==
    [qc_no_ec |-> NoCircuit, qc_with_ec |-> NoCircuit,
     transpiled_no_ec |-> NoCircuit, transpiled_with_ec |-> NoCircuit,
     counts_no_ec |-> NoCounts, counts_with_ec |-> NoCounts]

NoDemo == [qc |-> NoCircuit, counts |-> NoCounts]

NoErr == [type |-> "None", in |-> "", at |-> ""]

Syndromes == {"000000", "000001", "010100", "111111"}

BasisStates == SUBSET (0..(NQ - 1))

Job(n, c, s, b, q, syn) ==
    [name |-> n, circ |-> c, input |-> s, b |-> b, q |-> q, syndrome |-> syn]

NoJob == Job("", NoCircuit, {}, 0, 0, "")

Jobs ==
    {Job("encode", shor_encode, IF b = 1 THEN {0} ELSE {}, b, 0, "") : b \in {0, 1}}
    \cup {Job("round_trip", round_trip_circuit, s, IF 0 \in s THEN 1 ELSE 0, 0, "") :
              s \in BasisStates}
    \cup {Job("fault", fault_injection_circuit(x[1], x[2]), {}, x[1], x[2], "") :
              x \in {0, 1} \X (1..(NQ - 1))}
    \cup {Job("correction", apply_error_correction(x[1]), x[2], 0, 0, x[1]) :
              x \in Syndromes \X BasisStates}
    \cup {Job("qec", shor_qec_circuit, {}, 0, 0, "")}

InitCircuit ==
    /\ job \in Jobs
    /\ mainPc = "circuit"
    /\ backend = {}
    /\ qc = NoCircuit
    /\ bpc = 0
    /\ rc = NoFrame
    /\ demo = NoDemo
    /\ submitted = <<>>
    /\ out = <<>>
    /\ globals = NoGlobals
    /\ err = NoErr
    /\ ops = job.circ.ops
    /\ ip = 1
    /\ psi = Basis(job.input)
    /\ hk = 0
    /\ hit = FALSE
    /\ prob = NoProb
    /\ counts = NoCounts

NextCircuit ==
    \/ ExecGate(backend) /\ UNCHANGED <<job, progVars>>
    \/ ExecBarrier /\ UNCHANGED <<job, progVars>>
    \/ ExecMeasure /\ UNCHANGED <<job, progVars>>

SpecCircuit == InitCircuit /\ [][NextCircuit]_vars

-----------------------------------------------------------------------------
(* The script: run_comparison, demonstrate_error_correction, circuit       *)
(* statistics, visualize_circuits                                          *)

\* dict.get(key, default)
Get(d, key, default) == IF key \in DOMAIN d THEN d[key] ELSE default

\* a / b as the exact fraction <<numerator, denominator>>
Frac(a, b) == <<a, b>>

\* (0.5 - p) * 200, the absolute value forgotten
Deviation_signed(p) == Frac((p[2] - 2 * p[1]) * 100, p[2])

\* abs(0.5 - p) * 200 for a fraction p
Deviation(p) == Frac(Abs(p[2] - 2 * p[1]) * 100, p[2])

\* a fraction printed with two decimals, in hundredths
Fmt2(r) == (2 * 100 * r[1] + r[2]) \div (2 * r[2])

\* every gate kind used is native to AerSimulator, so lowering keeps the
\* operation list; the optimisation passes of the library are not modelled
transpile(circ) == circ

\* size(): operations that are not barriers
Size(circ) == Cardinality({i \in 1..Len(circ.ops) : circ.ops[i].kind # "barrier"})

Wires(circ, op) ==
    {op.qs[i] : i \in 1..Len(op.qs)} \cup {circ.nq + op.cb[i] : i \in 1..Len(op.cb)}

Max(S) == CHOOSE x \in S : \A y \in S : y <= x

\* depth(): level of every wire after the first k operations; a barrier
\* aligns its wires without adding a level
RECURSIVE Levels(_, _)
Levels(circ, k) ==
    IF k = 0 THEN [w \in 0..(circ.nq + circ.nc - 1) |-> 0]
    ELSE LET prev == Levels(circ, k - 1)
             op == circ.ops[k]
             top == Max({prev[w] : w \in Wires(circ, op)})
             lvl == IF op.kind = "barrier" THEN top ELSE top + 1
         IN [w \in DOMAIN prev |-> IF w \in Wires(circ, op) THEN lvl ELSE prev[w]]

Depth(circ) == LET l == Levels(circ, Len(circ.ops)) IN Max({l[w] : w \in DOMAIN l})

Submission(name, nm, shots) == [circuit |-> name, noise_model |-> nm, shots |-> shots]

Idle == UNCHANGED simVars

\* lines 117-126
RC_Setup ==
    /\ mainPc = "rc_start"
    /\ backend' = build_noise_model
    /\ rc' = [NoFrame EXCEPT !.qc_no_ec = no_ec_circuit]
    /\ mainPc' = "rc_qec"
    /\ Idle
    /\ UNCHANGED <<job, qc, bpc, demo, submitted, out, globals, err>>

\* line 73
Qec_New ==
    /\ mainPc \in {"rc_qec", "main_qec"}
    /\ qc = NoCircuit
    /\ qc' = QuantumCircuit(NQ, 1)
    /\ bpc' = 0
    /\ Idle
    /\ UNCHANGED <<job, mainPc, backend, rc, demo, submitted, out, globals, err>>

\* lines 76-93, one statement at a time
Qec_Step ==
    /\ mainPc \in {"rc_qec", "main_qec"}
    /\ qc # NoCircuit
    /\ bpc < QecStmts
    /\ qc' = QecStmt(bpc + 1, qc)
    /\ bpc' = bpc + 1
    /\ Idle
    /\ UNCHANGED <<job, mainPc, backend, rc, demo, submitted, out, globals, err>>

\* line 95 into line 129
RC_QecReturn ==
    /\ mainPc = "rc_qec"
    /\ qc # NoCircuit
    /\ bpc = QecStmts
    /\ rc' = [rc EXCEPT !.qc_with_ec = qc]
    /\ qc' = NoCircuit
    /\ bpc' = 0
    /\ mainPc' = "rc_transpile"
    /\ Idle
    /\ UNCHANGED <<job, backend, demo, submitted, out, globals, err>>

\* lines 132-133
RC_Transpile ==
    /\ mainPc = "rc_transpile"
    /\ rc' = [rc EXCEPT !.transpiled_no_ec = transpile(rc.qc_no_ec),
                        !.transpiled_with_ec = transpile(rc.qc_with_ec)]
    /\ mainPc' = "rc_run_no_ec"
    /\ Idle
    /\ UNCHANGED <<job, backend, qc, bpc, demo, submitted, out, globals, err>>

\* line 137: backend.run(transpiled_no_ec, shots=1000)
RC_RunNoEc ==
    /\ mainPc = "rc_run_no_ec"
    /\ Start(rc.transpiled_no_ec, {})
    /\ submitted' = Append(submitted, Submission("qc_no_ec", backend, SHOTS))
    /\ mainPc' = "rc_exec_no_ec"
    /\ UNCHANGED <<job, backend, qc, bpc, rc, demo, out, globals, err>>

\* lines 137-138: .result().get_counts()
RC_CountsNoEc ==
    /\ mainPc = "rc_exec_no_ec"
    /\ Finished
    /\ rc' = [rc EXCEPT !.counts_no_ec = counts]
    /\ mainPc' = "rc_run_with_ec"
    /\ Idle
    /\ UNCHANGED <<job, backend, qc, bpc, demo, submitted, out, globals, err>>

\* line 141: backend.run(transpiled_with_ec, shots=1000)
RC_RunWithEc ==
    /\ mainPc = "rc_run_with_ec"
    /\ Start(rc.transpiled_with_ec, {})
    /\ submitted' = Append(submitted, Submission("qc_with_ec", backend, SHOTS))
    /\ mainPc' = "rc_exec_with_ec"
    /\ UNCHANGED <<job, backend, qc, bpc, rc, demo, out, globals, err>>

\* lines 141-142
RC_CountsWithEc ==
    /\ mainPc = "rc_exec_with_ec"
    /\ Finished
    /\ rc' = [rc EXCEPT !.counts_with_ec = counts]
    /\ mainPc' = "rc_stats"
    /\ Idle
    /\ UNCHANGED <<job, backend, qc, bpc, demo, submitted, out, globals, err>>

\* lines 145-157
Report(counts_no_ec, counts_with_ec) ==
    LET prob_0_no_ec == Frac(Get(counts_no_ec, "0", 0), 1000)
        prob_1_no_ec == Frac(Get(counts_no_ec, "1", 0), 1000)
        prob_0_with_ec == Frac(Get(counts_with_ec, "0", 0), 1000)
        prob_1_with_ec == Frac(Get(counts_with_ec, "1", 0), 1000)
    IN [label |-> "Results",
        prob_0_no_ec |-> prob_0_no_ec, prob_1_no_ec |-> prob_1_no_ec,
        prob_0_with_ec |-> prob_0_with_ec, prob_1_with_ec |-> prob_1_with_ec,
        deviation_no_ec |-> Deviation(prob_0_no_ec),
        deviation_with_ec |-> Deviation(prob_0_with_ec)]

RC_Stats ==
    /\ mainPc = "rc_stats"
    /\ out' = Append(out, Report(rc.counts_no_ec, rc.counts_with_ec))
    /\ mainPc' = "rc_return"
    /\ Idle
    /\ UNCHANGED <<job, backend, qc, bpc, rc, demo, submitted, globals, err>>

\* line 173 into line 227
RC_Return ==
    /\ mainPc = "rc_return"
    /\ globals' = [globals EXCEPT !.counts_no_ec = rc.counts_no_ec,
                                  !.counts_with_ec = rc.counts_with_ec]
    /\ rc' = NoFrame
    /\ mainPc' = "demo_build"
    /\ Idle
    /\ UNCHANGED <<job, backend, qc, bpc, demo, submitted, out, err>>

\* lines 181-196
Demo_Build ==
    /\ mainPc = "demo_build"
    /\ demo' = [qc |-> fault_injection_circuit(1, 4), counts |-> NoCounts]
    /\ mainPc' = "demo_run"
    /\ Idle
    /\ UNCHANGED <<job, backend, qc, bpc, rc, submitted, out, globals, err>>

\* lines 198-200: a backend without noise model
Demo_Run ==
    /\ mainPc = "demo_run"
    /\ backend' = {}
    /\ Start(transpile(demo.qc), {})
    /\ submitted' = Append(submitted, Submission("demo", {}, SHOTS))
    /\ mainPc' = "demo_exec"
    /\ UNCHANGED <<job, qc, bpc, rc, demo, out, globals, err>>

\* lines 201-204 into line 228
Demo_Return ==
    /\ mainPc = "demo_exec"
    /\ Finished
    /\ out' = Append(out, [label |-> "Results with error on qubit 4", counts |-> counts])
    /\ globals' = [globals EXCEPT !.error_counts = counts]
    /\ demo' = NoDemo
    /\ mainPc' = "main_qec"
    /\ Idle
    /\ UNCHANGED <<job, backend, qc, bpc, rc, submitted, err>>

\* line 95 into line 230
Main_QecReturn ==
    /\ mainPc = "main_qec"
    /\ qc # NoCircuit
    /\ bpc = QecStmts
    /\ globals' = [globals EXCEPT !.qc = qc]
    /\ qc' = NoCircuit
    /\ bpc' = 0
    /\ mainPc' = "main_stats"
    /\ Idle
    /\ UNCHANGED <<job, backend, rc, demo, submitted, out, err>>

\* lines 231-234
Main_Stats ==
    /\ mainPc = "main_stats"
    /\ out' = Append(out, [label |-> "Circuit stats", depth |-> Depth(globals.qc),
                           size |-> Size(globals.qc), width |-> globals.qc.nq])
    /\ mainPc' = "visualize"
    /\ Idle
    /\ UNCHANGED <<job, backend, qc, bpc, rc, demo, submitted, globals, err>>

\* lines 209-221
visualize_circuits ==
    /\ mainPc = "visualize"
    /\ out' = Append(Append(out, [label |-> "Shor Encoding Circuit", draw |-> shor_encode]),
                     [label |-> "Simplified Shor QEC Circuit", draw |-> simple_qec_circuit])
    /\ mainPc' = "done"
    /\ Idle
    /\ UNCHANGED <<job, backend, qc, bpc, rc, demo, submitted, globals, err>>

Executing == mainPc \in {"rc_exec_no_ec", "rc_exec_with_ec", "demo_exec"}

RunSites == {"rc_run_no_ec", "rc_run_with_ec", "demo_run"}

SubmissionAt(pc) ==
    CASE pc = "rc_run_no_ec" -> Submission("qc_no_ec", backend, SHOTS)
      [] pc = "rc_run_with_ec" -> Submission("qc_with_ec", backend, SHOTS)
      [] pc = "demo_run" -> Submission("demo", {}, SHOTS)

\* a failure caught inside run_comparison, which returns the counts it has
Raise_recover ==
    /\ mainPc \in {"rc_transpile"} \cup RunSites
    /\ err' = [type |-> "CircuitExecutionError",
               in |-> IF mainPc = "demo_run" THEN "demonstrate_error_correction"
                                              ELSE "run_comparison",
               at |-> mainPc]
    /\ submitted' = IF mainPc \in RunSites THEN Append(submitted, SubmissionAt(mainPc))
                                           ELSE submitted
    /\ globals' = [globals EXCEPT !.counts_no_ec = rc.counts_no_ec,
                                  !.counts_with_ec = rc.counts_with_ec]
    /\ rc' = NoFrame
    /\ demo' = NoDemo
    /\ mainPc' = "aborted"
    /\ Idle
    /\ UNCHANGED <<job, backend, qc, bpc, out>>

\* transpile or run raises: nothing catches it, the script ends
Raise ==
    /\ mainPc \in {"rc_transpile"} \cup RunSites
    /\ err' = [type |-> "CircuitExecutionError",
               in |-> IF mainPc = "demo_run" THEN "demonstrate_error_correction"
                                              ELSE "run_comparison",
               at |-> mainPc]
    /\ submitted' = IF mainPc \in RunSites THEN Append(submitted, SubmissionAt(mainPc))
                                           ELSE submitted
    /\ rc' = NoFrame
    /\ demo' = NoDemo
    /\ mainPc' = "aborted"
    /\ Idle
    /\ UNCHANGED <<job, backend, qc, bpc, out, globals>>

Init ==
    /\ job = NoJob
    /\ mainPc = "rc_start"
    /\ backend = {}
    /\ qc = NoCircuit
    /\ bpc = 0
    /\ rc = NoFrame
    /\ demo = NoDemo
    /\ submitted = <<>>
    /\ out = <<>>
    /\ globals = NoGlobals
    /\ err = NoErr
    /\ ops = <<>>
    /\ ip = 0
    /\ psi = Basis({})
    /\ hk = 0
    /\ hit = FALSE
    /\ prob = NoProb
    /\ counts = NoCounts

Next ==
    \/ RC_Setup
    \/ Qec_New
    \/ Qec_Step
    \/ RC_QecReturn
    \/ RC_Transpile
    \/ RC_RunNoEc
    \/ RC_CountsNoEc
    \/ RC_RunWithEc
    \/ RC_CountsWithEc
    \/ RC_Stats
    \/ RC_Return
    \/ Demo_Build
    \/ Demo_Run
    \/ Demo_Return
    \/ Main_QecReturn
    \/ Main_Stats
    \/ visualize_circuits
    \/ Raise
    \/ Executing /\ ExecGate(backend) /\ UNCHANGED <<job, progVars>>
    \/ Executing /\ ExecBarrier /\ UNCHANGED <<job, progVars>>
    \/ Executing /\ ExecMeasure /\ UNCHANGED <<job, progVars>>

Spec == Init /\ [][Next]_vars

-----------------------------------------------------------------------------
(* The statistics of run_comparison on every count of outcome 0 *)

InitDeviation ==
    /\ job = NoJob
    /\ mainPc = "rc_stats"
    /\ backend = build_noise_model
    /\ qc = NoCircuit
    /\ bpc = 0
    /\ \E c \in 0..SHOTS, g \in GridC0 :
          rc = [qc_no_ec |-> no_ec_circuit, qc_with_ec |-> shor_qec_circuit,
                transpiled_no_ec |-> transpile(no_ec_circuit),
                transpiled_with_ec |-> transpile(shor_qec_circuit),
                counts_no_ec |-> CountsDict(c), counts_with_ec |-> CountsDict(g)]
    /\ demo = NoDemo
    /\ submitted = << Submission("qc_no_ec", build_noise_model, SHOTS),
                      Submission("qc_with_ec", build_noise_model, SHOTS) >>
    /\ out = <<>>
    /\ globals = NoGlobals
    /\ err = NoErr
    /\ ops = <<>>
    /\ ip = 0
    /\ psi = Basis({})
    /\ hk = 0
    /\ hit = FALSE
    /\ prob = NoProb
    /\ counts = NoCounts

NextDeviation ==
    \/ RC_Stats
    \/ RC_Return

SpecDeviation == InitDeviation /\ [][NextDeviation]_vars

-----------------------------------------------------------------------------
(* Properties *)

Only(key) == [k \in {key} |-> SHOTS]

Bit(b) == IF b = 1 THEN "1" ELSE "0"

RECURSIVE Pow2(_)
Pow2(n) == IF n = 0 THEN 1 ELSE 2 * Pow2(n - 1)

Scaled(v, m) == [s \in DOMAIN v |-> <<m * v[s][1], m * v[s][2]>>]

\* psi, with its hk factors of 1/sqrt(2), is the vector v
SameVector(v) == hk % 2 = 0 /\ psi = Scaled(v, Pow2(hk \div 2))

FaultQubits == 1..8

\* C1: for each fault qubit 1..8 and each prepared value b, the noise-free run of
\* prepare b, shor_encode, X on the fault qubit, inverse of shor_encode, measure
\* qubit 0 reads b in every shot (prepared 1, fault on qubit 4: '1' in all 1000).
SingleFaultRecovered ==
    (job.name = "fault" /\ job.q \in FaultQubits /\ Finished)
        => /\ counts = Only(Bit(job.b))
           /\ prob[2 - job.b] = 0
           /\ prob[1 + job.b] > 0

SingleFaultWitness ==
    /\ job.name = "fault" /\ job.b = 1 /\ job.q = 4
    /\ Finished
    /\ ops[13].kind = "x" /\ ops[13].qs = <<4>>
    /\ counts = Only("1")

\* C2: shor_encode followed by its inverse, without fault or noise, leaves every
\* 9-qubit basis state as it was, and the measurement of qubit 0 gives the
\* prepared value of qubit 0 in every shot.
RoundTripIdentity ==
    job.name = "round_trip"
        => /\ ip >= Len(ops) => SameVector(Basis(job.input))
           /\ Finished => counts = Only(Bit(IF 0 \in job.input THEN 1 ELSE 0))

RoundTripWitness ==
    /\ job.name = "round_trip" /\ job.input = {0, 4, 8}
    /\ Finished
    /\ hk = 6
    /\ psi = Scaled(Basis({0, 4, 8}), 8)
    /\ counts = Only("1")

Blocks == {{0, 1, 2}, {3, 4, 5}, {6, 7, 8}}

CodeWords == {s \in SUBSET (0..8) : \A blk \in Blocks : blk \subseteq s \/ blk \cap s = {}}

OnesBlocks(s) == Cardinality({blk \in Blocks : blk \subseteq s})

\* C3: from qubit 0 in |b> and qubits 1..8 in |0>, shor_encode gives the eight
\* bitstrings whose blocks (0,1,2), (3,4,5), (6,7,8) are each all-zeros or all-ones,
\* with equal magnitude 1/sqrt(8) and sign (-1)^(b * number of all-ones blocks).
EncodeIsShorCode ==
    (job.name = "encode" /\ Finished)
        => /\ DOMAIN psi = CodeWords
           /\ hk = 3
           /\ \A s \in DOMAIN psi :
                 psi[s] = IF (job.b * OnesBlocks(s)) % 2 = 1 THEN CNeg(One) ELSE One

EncodeWitness ==
    /\ job.name = "encode" /\ job.b = 1
    /\ Finished
    /\ psi[{0, 1, 2}] = CNeg(One)
    /\ psi[{0, 1, 2, 3, 4, 5}] = One

\* C4: whatever the syndrome, apply_error_correction is the same sequence
\* barrier, X, Z, X, Z on qubit 0, and it maps every 9-qubit basis state to itself
\* times the global phase -1, the same for every input: a no-op correction.
CorrectionIsNoOp ==
    job.name = "correction"
        => /\ ops = << Barrier(9), G1("x", 0), G1("z", 0), G1("x", 0), G1("z", 0) >>
           /\ Finished => (hk = 0 /\ psi = Scaled(Basis(job.input), -1))

CorrectionWitness ==
    /\ job.name = "correction" /\ job.syndrome = "111111" /\ job.input = {0, 3}
    /\ Finished
    /\ psi = Scaled(Basis({0, 3}), -1)

IsPrefix(s, u) == Len(s) <= Len(u) /\ SubSeq(u, 1, Len(s)) = s

QecOrdered(o) ==
    /\ Len(o) = 42
    /\ o[1] = G1("h", 0)
    /\ SubSeq(o, 2, 13) = apply_quantum_operations.ops
    /\ SubSeq(o, 14, 24) = shor_encode.ops
    /\ o[25] = Barrier(9)
    /\ SubSeq(o, 26, 30) = apply_error_correction("000000").ops
    /\ SubSeq(o, 31, 41) = inverse(shor_encode).ops
    /\ o[42] = Measure(0, 0)

\* C5: the circuit shor_qec_circuit returns is, in this order, the preparation
\* h(0), apply_quantum_operations, shor_encode, a barrier, apply_error_correction,
\* the inverse of shor_encode and one measurement of qubit 0 into bit 0, and every
\* statement of shor_qec_circuit only appends to what is already there.
QecAppendOnlyInOrder ==
    /\ []((qc # NoCircuit /\ bpc = QecStmts) => QecOrdered(qc.ops))
    /\ [][(qc # NoCircuit /\ qc' # NoCircuit) => IsPrefix(qc.ops, qc'.ops)]_vars

QecOrderWitness ==
    /\ mainPc = "main_qec"
    /\ bpc = QecStmts
    /\ Len(qc.ops) = 42
    /\ qc.ops[42].kind = "measure"

InBounds(circ) ==
    \A i \in 1..Len(circ.ops) :
        /\ \A j \in 1..Len(circ.ops[i].qs) : circ.ops[i].qs[j] \in 0..(circ.nq - 1)
        /\ \A j \in 1..Len(circ.ops[i].cb) : circ.ops[i].cb[j] \in 0..(circ.nc - 1)

Barriers(circ) == Cardinality({i \in 1..Len(circ.ops) : circ.ops[i].kind = "barrier"})

\* C6: the circuit shor_qec_circuit returns has 9 qubits, 1 classical bit and 2
\* barriers, and all its operations address qubits 0..8 and classical bit 0.
QecShape ==
    (qc # NoCircuit /\ bpc = QecStmts)
        => /\ qc.nq = 9
           /\ qc.nc = 1
           /\ Barriers(qc) = 2
           /\ InBounds(qc)

QecShapeWitness ==
    /\ mainPc = "rc_qec"
    /\ bpc = QecStmts
    /\ Barriers(qc) = 2
    /\ Len(qc.ops) = 42

\* C7: in the noise-free run of the circuit of shor_qec_circuit the measured
\* qubit is in a superposition and reads 0 with probability 0.5.
IdealQecHalf ==
    (job.name = "qec" /\ Finished)
        => /\ prob[1] > 0
           /\ prob[2] > 0
           /\ 2 * prob[1] = prob[1] + prob[2]

DeviationOf(cnts, d) ==
    LET c0 == Get(cnts, "0", 0)
    IN /\ d[1] * 5 = Abs(500 - c0) * d[2]
       /\ 0 <= d[1] /\ d[1] <= 100 * d[2]
       /\ c0 = 500 => Fmt2(d) = 0
       /\ c0 = 400 => Fmt2(d) = 2000
       /\ "0" \notin DOMAIN cnts => Fmt2(d) = 10000

\* C8: with 1000 shots and c0 the count of outcome '0' (0 when the key is absent),
\* the deviation is |500 - c0| / 5 percent, within 0..100; 500/500 prints 0.00,
\* 400/600 prints 20.00, no '0' key gives 100.
DeviationFormula ==
    mainPc = "rc_return"
        => /\ DeviationOf(rc.counts_no_ec, out[Len(out)].deviation_no_ec)
           /\ DeviationOf(rc.counts_with_ec, out[Len(out)].deviation_with_ec)

DeviationWitness ==
    /\ mainPc = "rc_return"
    /\ rc.counts_no_ec = [k \in {"0", "1"} |-> IF k = "0" THEN 400 ELSE 600]
    /\ "0" \notin DOMAIN rc.counts_with_ec
    /\ Fmt2(out[Len(out)].deviation_no_ec) = 2000
    /\ Fmt2(out[Len(out)].deviation_with_ec) = 10000

Submissions(name) == {i \in DOMAIN submitted : submitted[i].circuit = name}

\* C9: when transpile or run fails inside run_comparison the script is aborted
\* with the failure, no counts of run_comparison reach the caller (not those of
\* a run that had succeeded either), no report is printed, and no circuit is
\* submitted to the backend more than once.
AbortOnFailure ==
    /\ err.in = "run_comparison"
          => /\ mainPc = "aborted"
             /\ err.type = "CircuitExecutionError"
             /\ globals.counts_no_ec = NoCounts
             /\ globals.counts_with_ec = NoCounts
             /\ rc = NoFrame
             /\ out = <<>>
    /\ \A name \in {"qc_no_ec", "qc_with_ec"} : Cardinality(Submissions(name)) <= 1

AbortWitness ==
    /\ mainPc = "aborted"
    /\ err.at = "rc_run_with_ec"
    /\ Cardinality(Submissions("qc_no_ec")) = 1
    /\ Cardinality(Submissions("qc_with_ec")) = 1
    /\ globals.counts_no_ec = NoCounts

Covers(nm, circ) ==
    \A i \in 1..Len(circ.ops) :
        LET op == circ.ops[i]
        IN IF op.kind \in {"measure", "barrier"} THEN Channels(nm, op.kind) = {}
           ELSE IF Len(op.qs) = 1 THEN Channels(nm, op.kind) = {[p |-> 10, n |-> 1]}
           ELSE Len(op.qs) = 2 /\ Channels(nm, op.kind) = {[p |-> 30, n |-> 2]}

\* C10: every gate of the unprotected circuit and of the circuit of
\* shor_qec_circuit has its kind registered in the noise model, single-qubit
\* kinds with probability 0.01 and two-qubit kinds with 0.03, measurement and
\* barrier with none, and both circuits are run under that noise model with
\* 1000 shots.
NoiseCoversCircuits ==
    rc.qc_with_ec # NoCircuit
        => /\ Covers(backend, rc.qc_no_ec)
           /\ Covers(backend, rc.qc_with_ec)
           /\ \A i \in DOMAIN submitted :
                 submitted[i].noise_model = backend /\ submitted[i].shots = 1000

NoiseWitness ==
    /\ mainPc = "rc_stats"
    /\ Len(submitted) = 2
    /\ submitted[1].circuit = "qc_no_ec"
    /\ submitted[2].circuit = "qc_with_ec"
    /\ Len(rc.qc_with_ec.ops) = 42

====
